---- MODULE Spec2Model ----
(***************************************************************************)
(* RunCellpose (src/cellprofiler/modules/runcellpose.py): the model cache  *)
(* of load_models and the control flow of run.                             *)
(*                                                                         *)
(* Every call into torch, cellpose, numpy and skimage is an external call  *)
(* that either returns or raises, and is recorded in calls in program      *)
(* order. The calls into the host (get_image, Objects, add_objects, Image, *)
(* image_set.add, add_measurements) return; the image source gives every   *)
(* image a spacing vector. The display data (show_window) is not modelled. *)
(*                                                                         *)
(* Python values: None is the empty tuple and a value that may be None is  *)
(* the one-element tuple <<v>>; a Python tuple is a TLA+ tuple; the stitch *)
(* threshold and the spacings are in tenths and the anisotropy is the pair *)
(* <<numerator, denominator>>. A label map is its shape and its objects.   *)
(*                                                                         *)
(* Specifications: Spec is one invocation of run on a new instance, over   *)
(* all settings and image sets; Session is a sequence of invocations on    *)
(* one instance with the settings edited in between; History is a session  *)
(* that remembers the recon_params of earlier invocations; Pipeline is one *)
(* invocation that validate_module may precede.                            *)
(***************************************************************************)
EXTENDS Integers, Sequences, FiniteSets, TLC

None == <<>>

Some(v) == <<v>>

(***************************************************************************)
(* Module constants                                                        *)
(***************************************************************************)
MODEL_NAMES ==
    <<"cyto3", "nuclei", "cyto2_cp3", "tissuenet_cp3", "livecell_cp3",
      "yeast_PhC_cp3", "yeast_BF_cp3", "bact_phase_cp3", "bact_fluor_cp3",
      "deepbacs_cp3", "cyto2", "cyto">>

DENOISER_NAMES ==
    <<"denoise_cyto3", "deblur_cyto3", "upsample_cyto3",
      "denoise_nuclei", "deblur_nuclei", "upsample_nuclei">>

SIZED_MODELS == {"cyto3", "cyto2", "cyto", "nuclei"}

\* diam = 30 after an upsample_cyto3 pass, diam = 17 after upsample_nuclei
UpsampleCyto3Diameter == 30

UpsampleNucleiDiameter == 17

(***************************************************************************)
(* Bounds of the exploration: the values the settings and the images are   *)
(* drawn from.                                                             *)
(***************************************************************************)
\* a positive "Expected object diameter" (the other value explored is 0)
UserDiameter == 25

\* a positive "Stitch Threshold" in tenths (the other value explored is 0.0)
StitchTenths == 5

\* extents of the primary image: planes, rows, columns
Lz == 2

Ly == 3

Lx == 4

\* spacing of a volumetric image, in tenths: (SpacingZ, SpacingXY, SpacingXY)
SpacingZ == 20

SpacingXY == 5

\* the working resolution of an upsampling denoiser is this multiple of its input
UpsampleFactor == 2

\* the detection modes explored: a sized family, the nuclei family, a
\* family that is not sized, and a custom model file
ModeValues == {"cyto3", "nuclei", "cyto2_cp3", "custom"}

\* the denoisers explored: both upsamplers, one denoise_* and one deblur_*
DenoiserValues ==
    {"upsample_cyto3", "upsample_nuclei", "denoise_cyto3", "deblur_nuclei"}

DiameterValues == {0, UserDiameter}

StitchValues == {0, StitchTenths}

\* model_directory.get_absolute_path() and the file names of custom models
ModelDirectory == "/models"

FileValues == {"cyto_0", "cyto_1"}

(***************************************************************************)
(* State                                                                   *)
(***************************************************************************)
VARIABLES
    \* settings (create_settings)
    mode, use_gpu, supply_nuclei, denoise, denoise_type, expected_diameter,
    do_3D, stitch_threshold, save_probabilities, remove_edge_masks,
    model_file_name,
    \* the model cache (__init__, load_models)
    current_model, current_model_params, recon_model, recon_model_params,
    \* position in run
    pc,
    \* the images of the workspace's image set: x_name and nuclei_image
    images,
    \* the paths that exist in the file system (os.path.exists)
    files,
    \* how the last call of validate_module ended: None before the first
    \* call, then <<"ok">> or the ValidationError
    validation,
    \* history: the recon_params of the most recent earlier invocation that
    \* had denoise on and a denoiser loaded for them, None while there is none
    earlier_recon_params,
    \* locals of run
    x, x_data, channels, diam, anisotropy, input_data, y_data, flows,
    \* the exception in flight while the finally block runs, and the
    \* exception the caller of run saw
    pending, raised,
    \* external effects of the present invocation: calls made, in order
    calls,
    \* workspace.object_set and workspace.image_set additions, measurements
    object_set, image_set, measurements,
    \* stdout of the except clause of the cleanup
    printed

settingsVars ==
    <<mode, use_gpu, supply_nuclei, denoise, denoise_type, expected_diameter,
      do_3D, stitch_threshold, save_probabilities, remove_edge_masks,
      model_file_name>>

cacheVars ==
    <<current_model, current_model_params, recon_model, recon_model_params>>

localVars == <<x, x_data, channels, diam, anisotropy, input_data, y_data, flows>>

sinkVars == <<object_set, image_set, measurements>>

hostVars == <<images, files, validation, earlier_recon_params>>

vars ==
    <<settingsVars, cacheVars, pc, hostVars, localVars, pending, raised, calls,
      sinkVars, printed>>

(***************************************************************************)
(* The calls of an invocation: each entry is a record with field fn.       *)
(***************************************************************************)
CallsTo(log, fn) == SelectSeq(log, LAMBDA c : c.fn = fn)

Called(log, fn) == Len(CallsTo(log, fn)) > 0

(***************************************************************************)
(* load_models                                                             *)
(***************************************************************************)
\* os.path.join(model_directory, model_file): one path per file name
os_path_join(directory, file) ==
    CASE file = "cyto_0" -> "/models/cyto_0"
      [] file = "cyto_1" -> "/models/cyto_1"

\* model_name: the mode, or the path of the custom model file
ModelName(m, file) ==
    IF m = "custom" THEN os_path_join(ModelDirectory, file) ELSE m

\* a key that leaves out use_gpu
ModelParamsWithoutGpu(m, file, gpu) == <<ModelName(m, file), FALSE>>

\* model_params = (model_name, self.use_gpu.value)
ModelParams(m, file, gpu) == <<ModelName(m, file), gpu>>

\* the sized class for every model
ModelClassAlwaysSized(model_name) == "Cellpose"

\* models.Cellpose for the sized families, models.CellposeModel otherwise
ModelClass(model_name) ==
    IF model_name \in SIZED_MODELS THEN "Cellpose" ELSE "CellposeModel"

NewModel(model_name, gpu) ==
    [class |-> ModelClass(model_name), model_type |-> model_name, gpu |-> gpu]

\* a key of the denoiser that leaves out use_gpu
ReconParamsWithoutGpu(dtype, gpu, m, nuclei) == <<dtype, FALSE, m /= "nuclei" /\ nuclei>>

\* recon_params = (denoise_type, use_gpu, mode != "nuclei" and supply_nuclei)
ReconParams(dtype, gpu, m, nuclei) == <<dtype, gpu, m /= "nuclei" /\ nuclei>>

\* a denoiser constructed without the second channel
NewDenoiserWithoutChan2(params) ==
    [class |-> "DenoiseModel", model_type |-> params[1], gpu |-> params[2],
     chan2 |-> FALSE]

NewDenoiser(params) ==
    [class |-> "DenoiseModel", model_type |-> params[1], gpu |-> params[2],
     chan2 |-> params[3]]

\* if self.current_model_params != model_params / recon_model_params != recon_params
ParamsChanged(stored, requested) == stored /= requested

\* An external call returns ("ok") or raises one of these exceptions.
Errors == {"RuntimeError", "MemoryError"}

Outcomes == {"ok"} \cup Errors

\* the three external calls of load_models, in program order, each with
\* its outcome
SetMemoryFractionCall(outcome) ==
    [fn |-> "cuda.set_per_process_memory_fraction", outcome |-> outcome]

ModelLoadCall(model_name, gpu, outcome) ==
    [fn |-> "models.load", class |-> ModelClass(model_name),
     model_type |-> model_name, gpu |-> gpu, outcome |-> outcome]

DenoiserLoadCall(params, outcome) ==
    [fn |-> "denoise.DenoiseModel", model_type |-> params[1],
     gpu |-> params[2], chan2 |-> params[3], outcome |-> outcome]

\* load_models, lines 388-429, called at line 468 of run. o_cuda, o_model, o_denoiser: the outcome of
\* cuda.set_per_process_memory_fraction, of the models.Cellpose /
\* models.CellposeModel constructor and of the denoise.DenoiseModel
\* constructor, for the calls that are made.
LoadModels ==
    /\ pc = "load_models"
    /\ \E o_cuda, o_model, o_denoiser \in Outcomes :
        LET model_name == ModelName(mode, model_file_name)
            model_params == ModelParams(mode, model_file_name, use_gpu)
            recon_params == ReconParams(denoise_type, use_gpu, mode, supply_nuclei)
            \* lines 391-394
            log1 == IF use_gpu THEN Append(calls, SetMemoryFractionCall(o_cuda))
                    ELSE calls
            failed1 == use_gpu /\ o_cuda /= "ok"
            \* lines 402-410
            load2 == ~failed1 /\ ParamsChanged(current_model_params, model_params)
            log2 == IF load2
                    THEN Append(log1, ModelLoadCall(model_name, use_gpu, o_model))
                    ELSE log1
            failed2 == load2 /\ o_model /= "ok"
            stored2 == load2 /\ o_model = "ok"
            \* lines 412-429
            reached3 == ~failed1 /\ ~failed2
            load3 == reached3 /\ denoise
                     /\ ParamsChanged(recon_model_params, recon_params)
            log3 == IF load3
                    THEN Append(log2, DenoiserLoadCall(recon_params, o_denoiser))
                    ELSE log2
            failed3 == load3 /\ o_denoiser /= "ok"
        IN  /\ calls' = log3
            /\ current_model' =
                 IF stored2 THEN Some(NewModel(model_name, use_gpu))
                 ELSE current_model
            /\ current_model_params' =
                 IF stored2 THEN model_params ELSE current_model_params
            /\ recon_model' =
                 IF ~reached3 \/ failed3 THEN recon_model
                 ELSE IF ~denoise THEN None
                 ELSE IF load3 THEN Some(NewDenoiser(recon_params))
                 ELSE recon_model
            /\ recon_model_params' =
                 IF ~reached3 \/ failed3 THEN recon_model_params
                 ELSE IF ~denoise THEN None
                 ELSE recon_params
            /\ raised' =
                 IF failed1 THEN Some(o_cuda)
                 ELSE IF failed2 THEN Some(o_model)
                 ELSE IF failed3 THEN Some(o_denoiser)
                 ELSE None
            /\ pc' = IF failed1 \/ failed2 \/ failed3 THEN "raised"
                     ELSE "denoise"
    /\ UNCHANGED <<settingsVars, hostVars, localVars, pending, sinkVars, printed>>

(***************************************************************************)
(* Arrays. An array is its shape, the 1-based position of its channel axis *)
(* (0 when it has none) and the planes along that axis, in order.          *)
(***************************************************************************)
Plane(name, shape) == [shape |-> shape, axis |-> 0, planes |-> <<name>>]

\* numpy.zeros_like(a)
zeros_like(a) == Plane("zeros", a.shape)

InsertAt(s, k, e) == SubSeq(s, 1, k) \o <<e>> \o SubSeq(s, k + 1, Len(s))

RemoveAt(s, k) == SubSeq(s, 1, k - 1) \o SubSeq(s, k + 1, Len(s))

\* numpy.stack(arrays, axis): a new axis at the (0-based, possibly negative)
\* position axis of the result, holding the arrays in the order given
numpy_stack(arrays, axis) ==
    LET ndim == Len(arrays[1].shape) + 1
        at == IF axis < 0 THEN axis + ndim ELSE axis
    IN  [shape |-> InsertAt(arrays[1].shape, at, Len(arrays)),
         axis |-> at + 1,
         planes |-> [i \in 1..Len(arrays) |-> arrays[i].planes[1]]]

\* numpy.stack raises ValueError unless all arrays have the same shape
StackRaises(arrays) == \E i \in 1..Len(arrays) : arrays[i].shape /= arrays[1].shape

\* the shape of an array without its channel axis
Spatial(a) == IF a.axis = 0 THEN a.shape ELSE RemoveAt(a.shape, a.axis)

(***************************************************************************)
(* The image set of the workspace                                          *)
(***************************************************************************)
GreyShapes == {<<Ly, Lx>>, <<Lz, Ly, Lx>>}

\* spacing of an image with ndim spatial axes
Spacing(ndim) ==
    IF ndim = 3 THEN <<SpacingZ, SpacingXY, SpacingXY>>
    ELSE <<SpacingXY, SpacingXY>>

\* the image get_image(x_name) returns: greyscale 2D or 3D, or colour
GreyImage(s) ==
    [name |-> "primary", shape |-> s, dimensions |-> Len(s),
     spacing |-> Spacing(Len(s)), parent_image |-> "parent"]

ColourImage(s) == [GreyImage(s) EXCEPT !.shape = Append(s, 3)]

Images == {GreyImage(s) : s \in GreyShapes} \cup {ColourImage(<<Ly, Lx>>)}

\* a test for two extra axes instead of one
multichannel_two_axes(img) == Len(img.shape) = img.dimensions + 2

\* Image.multichannel
multichannel(img) == Len(img.shape) = img.dimensions + 1

\* Image.pixel_data
pixel_data(img) ==
    IF multichannel(img)
    THEN [shape |-> img.shape, axis |-> Len(img.shape), planes |-> <<"r", "g", "b">>]
    ELSE Plane(img.name, img.shape)

\* the image get_image(nuclei_image) returns next to a primary image:
\* greyscale, of the same spatial shape or (same = FALSE) with one more row
NucleiImage(img, same) ==
    LET s == Spatial(pixel_data(img))
    IN  [name |-> "nuclei",
         shape |-> IF same THEN s ELSE [s EXCEPT ![img.dimensions - 1] = @ + 1],
         dimensions |-> img.dimensions, spacing |-> img.spacing,
         parent_image |-> "parent"]

\* the image sets a workspace may hold
ImageSets ==
    { [x_name |-> img, nuclei_image |-> NucleiImage(img, same)] :
      img \in Images, same \in BOOLEAN }

(***************************************************************************)
(* run, lines 432-466: read the image, resolve anisotropy and diameter,    *)
(* reject colour images, compose the input of the inference layer          *)
(***************************************************************************)
\* the ratio taken the other way round: x.spacing[1] / x.spacing[0]
AnisotropyInverted(three_d, spacing) ==
    IF three_d THEN <<spacing[2], spacing[1]>> ELSE <<0, 1>>

\* anisotropy, a ratio <<numerator, denominator>>: 0.0, or
\* x.spacing[0] / x.spacing[1] when do_3D is on
Anisotropy(three_d, spacing) ==
    IF three_d THEN <<spacing[1], spacing[2]>> ELSE <<0, 1>>

\* a diameter of 0 handed on as 0
ResolveDiameterZeroKept(d) == Some(d)

\* diam = expected_diameter if expected_diameter > 0 else None
ResolveDiameter(d) == IF d > 0 THEN Some(d) ELSE None

\* the nuclei image stacked whatever the mode is
WithNucleiAnyMode(m, nuclei) == nuclei

\* if self.mode.value != "nuclei" and self.supply_nuclei.value
WithNuclei(m, nuclei) == m /= "nuclei" /\ nuclei

\* the channel axis always last
StackAxisAlwaysLast(three_d) == -1

\* the axis numpy.stack is given: 1 in 3D mode, -1 otherwise
StackAxis(three_d) == IF three_d THEN 1 ELSE -1

\* the tuple given to numpy.stack
StackPlanes(data, nuc) == <<zeros_like(data), data, nuc>>

\* channels
ComposedChannels(m, nuclei) == IF WithNuclei(m, nuclei) THEN <<2, 3>> ELSE <<0, 0>>

ColorImageError == "ValueError: Color images are not currently supported"

StackError == "ValueError: all input arrays must have the same shape"

RunBegin ==
    /\ pc = "idle"
    /\ LET img == images.x_name
            data == pixel_data(img)
            planes == StackPlanes(data, pixel_data(images.nuclei_image))
            reads == IF ~multichannel(img) /\ WithNuclei(mode, supply_nuclei)
                     THEN <<[fn |-> "get_image", name |-> "x_name"],
                            [fn |-> "get_image", name |-> "nuclei_image"]>>
                     ELSE <<[fn |-> "get_image", name |-> "x_name"]>>
        IN  /\ x' = Some(img)
            /\ anisotropy' = Anisotropy(do_3D, img.spacing)
            /\ diam' = ResolveDiameter(expected_diameter)
            /\ calls' = reads
            /\ IF multichannel(img)
               THEN /\ raised' = Some(ColorImageError)
                    /\ pc' = "raised"
                    /\ UNCHANGED <<x_data, channels>>
               ELSE IF WithNuclei(mode, supply_nuclei) /\ StackRaises(planes)
               THEN /\ raised' = Some(StackError)
                    /\ pc' = "raised"
                    /\ UNCHANGED <<x_data, channels>>
               ELSE /\ x_data' =
                         IF WithNuclei(mode, supply_nuclei)
                         THEN Some(numpy_stack(planes, StackAxis(do_3D)))
                         ELSE Some(data)
                    /\ channels' = ComposedChannels(mode, supply_nuclei)
                    /\ raised' = None
                    /\ pc' = "load_models"
    /\ UNCHANGED <<settingsVars, cacheVars, hostVars, input_data, y_data, flows, pending,
                   sinkVars, printed>>

(***************************************************************************)
(* run, lines 470-507: the try block                                       *)
(***************************************************************************)
\* "upsample" in self.denoise_type.value
IsUpsample(dtype) == dtype \in {"upsample_cyto3", "upsample_nuclei"}

\* the user's diameter kept after an upsampling pass
DiameterKeptAfterDenoise(dtype, d) == d

\* lines 478-481: upsampling models scale object diameter to a target size
DiameterAfterDenoise(dtype, d) ==
    IF dtype = "upsample_cyto3" THEN Some(UpsampleCyto3Diameter)
    ELSE IF dtype = "upsample_nuclei" THEN Some(UpsampleNucleiDiameter)
    ELSE d

\* the channels of the denoise call handed on to the segmentation call
ChannelsKeptAfterDenoise(m, nuclei, chans) == chans

\* lines 483-484: the result only includes the input channels
ChannelsAfterDenoise(m, nuclei, chans) ==
    IF WithNuclei(m, nuclei) THEN <<0, 1>> ELSE chans

\* the planes of the array handed on as they were given
DenoisedPlanesAll(data, chans) == data.planes

\* what DenoiseModel.eval returns: the planes the channel pair names, along
\* a trailing channel axis; rows and columns scaled by an upsampling model
DenoisedPlanes(data, chans) ==
    IF chans = <<0, 0>> \/ data.axis = 0 THEN <<data.planes[1]>>
    ELSE <<data.planes[chans[1]], data.planes[chans[2]]>>

Upsampled(shape) ==
    [i \in 1..Len(shape) |->
        IF i >= Len(shape) - 1 THEN shape[i] * UpsampleFactor ELSE shape[i]]

DenoiseEval(model, data, chans) ==
    LET spatial == IF IsUpsample(model.model_type) THEN Upsampled(Spatial(data))
                   ELSE Spatial(data)
        planes == DenoisedPlanes(data, chans)
    IN  [shape |-> Append(spatial, Len(planes)), axis |-> Len(spatial) + 1,
         planes |-> planes]

DenoiseCall(data, d, chans, outcome) ==
    [fn |-> "recon_model.eval", x |-> data, diameter |-> d, channels |-> chans,
     outcome |-> outcome]

\* lines 471-486
RunDenoise ==
    /\ pc = "denoise"
    /\ IF recon_model /= None
       THEN \E outcome \in Outcomes :
            /\ calls' = Append(calls, DenoiseCall(x_data[1], diam, channels, outcome))
            /\ IF outcome = "ok"
               THEN /\ input_data' = Some(DenoiseEval(recon_model[1], x_data[1], channels))
                    /\ diam' = DiameterAfterDenoise(denoise_type, diam)
                    /\ channels' = ChannelsAfterDenoise(mode, supply_nuclei, channels)
                    /\ pc' = "segment"
                    /\ UNCHANGED pending
               ELSE /\ pending' = Some(outcome)
                    /\ pc' = "finally"
                    /\ UNCHANGED <<input_data, diam, channels>>
       ELSE /\ input_data' = x_data
            /\ pc' = "segment"
            /\ UNCHANGED <<calls, diam, channels, pending>>
    /\ UNCHANGED <<settingsVars, cacheVars, hostVars, x, x_data, anisotropy, y_data,
                   flows, raised, sinkVars, printed>>

\* the arguments of self.current_model.eval, lines 488-499
SegmentCall(model, data, chans, d, three_d, aniso, stitch, outcome) ==
    [fn |-> "current_model.eval", class |-> model.class, x |-> data,
     channels |-> chans, diameter |-> d, do_3D |-> three_d,
     anisotropy |-> aniso, stitch_threshold |-> stitch, outcome |-> outcome]

\* an object of a label map: the label its pixels carry (id), the label the
\* segmentation model gave it (seg), and whether its pixels touch a
\* boundary face of the array (edge)
LabelObject(id, edge) == [id |-> id, seg |-> id, edge |-> edge]

\* the label maps the model may return, each as its objects in label order
LabelMaps ==
    { <<LabelObject(1, TRUE), LabelObject(2, FALSE)>>,
      <<LabelObject(1, FALSE), LabelObject(2, TRUE)>> }

\* the label map and the cell probabilities (flows[2]) the model returns,
\* both of the spatial shape of its input
Labels(shape, objs) ==
    [shape |-> shape, order |-> None, edge_masks_removed |-> FALSE,
     objects |-> objs]

RunSegment ==
    /\ pc = "segment"
    /\ \E outcome \in Outcomes :
        /\ calls' = Append(calls,
                       SegmentCall(current_model[1], input_data[1], channels, diam,
                                   do_3D, anisotropy, stitch_threshold, outcome))
        /\ IF outcome = "ok"
           THEN /\ \E objs \in LabelMaps :
                        y_data' = Some(Labels(Spatial(input_data[1]), objs))
                /\ flows' = Some([shape |-> Spatial(input_data[1])])
                /\ pc' = "postprocess"
                /\ UNCHANGED pending
           ELSE /\ pending' = Some(outcome)
                /\ pc' = "finally"
                /\ UNCHANGED <<y_data, flows>>
    /\ UNCHANGED <<settingsVars, cacheVars, hostVars, x, x_data, channels, diam,
                   anisotropy, input_data, raised, sinkVars, printed>>

\* a resize that leaves the label map at the shape the model returned
ResizeLabelsKeepShape(y, shape) == [y EXCEPT !.order = Some(0)]

\* skimage.transform.resize(y_data, x.pixel_data.shape, preserve_range=True, order=0)
ResizeLabels(y, shape) == [y EXCEPT !.shape = shape, !.order = Some(0)]

\* cellpose.utils.remove_edge_masks(y_data), called with its default
\* change_index=True: the objects with a pixel on a boundary face are set
\* to 0, and the labels that remain are renumbered 1, 2, ... in their order
RemoveEdgeMasks(y) ==
    LET kept == SelectSeq(y.objects, LAMBDA o : ~o.edge)
    IN  [y EXCEPT !.edge_masks_removed = TRUE,
                  !.objects = [i \in 1..Len(kept) |-> [kept[i] EXCEPT !.id = i]]]

\* lines 501-507
RunPostprocess ==
    /\ pc = "postprocess"
    /\ \E o_resize, o_edge \in Outcomes :
        LET resize == denoise /\ IsUpsample(denoise_type)
            target == pixel_data(x[1]).shape
            log1 == IF resize
                    THEN Append(calls, [fn |-> "resize", output_shape |-> target,
                                        order |-> 0, outcome |-> o_resize])
                    ELSE calls
            failed1 == resize /\ o_resize /= "ok"
            y1 == IF resize /\ ~failed1 THEN ResizeLabels(y_data[1], target)
                  ELSE y_data[1]
            edge == ~failed1 /\ remove_edge_masks
            log2 == IF edge
                    THEN Append(log1, [fn |-> "remove_edge_masks", outcome |-> o_edge])
                    ELSE log1
            failed2 == edge /\ o_edge /= "ok"
            y2 == IF edge /\ ~failed2 THEN RemoveEdgeMasks(y1) ELSE y1
        IN  /\ calls' = log2
            /\ y_data' = Some(y2)
            /\ pending' = IF failed1 THEN Some(o_resize)
                          ELSE IF failed2 THEN Some(o_edge)
                          ELSE None
            /\ pc' = "finally"
    /\ UNCHANGED <<settingsVars, cacheVars, hostVars, x, x_data, channels, diam,
                   anisotropy, input_data, flows, raised, sinkVars, printed>>

(***************************************************************************)
(* run, lines 509-517: the finally block                                   *)
(***************************************************************************)
\* a finally block without the inner try: an exception of cuda.empty_cache
\* replaces the one in flight
PropagatedWithCleanupError(in_flight, o_cleanup) ==
    IF o_cleanup /= "ok" THEN Some(o_cleanup) ELSE in_flight

\* an except clause that raises a new exception in place of the one caught
PropagatedWrapped(in_flight, o_cleanup) ==
    IF in_flight /= None THEN Some("RunCellposeError") ELSE None

\* the exception that leaves the finally block: the one in flight; an
\* exception of cuda.empty_cache is caught by "except Exception" and printed
Propagated(in_flight, o_cleanup) == in_flight

RunFinally ==
    /\ pc = "finally"
    /\ \E o_cleanup \in Outcomes :
        LET cleanup == IF use_gpu THEN o_cleanup ELSE "ok"
            leaving == Propagated(pending, cleanup)
        IN  /\ calls' = IF use_gpu
                        THEN Append(calls, [fn |-> "cuda.empty_cache",
                                            outcome |-> o_cleanup])
                        ELSE calls
            /\ printed' = IF cleanup /= "ok" THEN Some(cleanup) ELSE printed
            /\ raised' = leaving
            /\ pc' = IF leaving /= None THEN "raised" ELSE "publish_objects"
    /\ UNCHANGED <<settingsVars, cacheVars, hostVars, localVars, pending, sinkVars>>

(***************************************************************************)
(* run, lines 519-549: publish the objects, the probability image and the  *)
(* measurements                                                            *)
(***************************************************************************)
\* y = Objects(); y.segmented = y_data; y.parent_image = x.parent_image
NewObjects(y, img) ==
    [name |-> "y_name", segmented |-> y, parent_image |-> img.parent_image]

\* lines 519-523
RunAddObjects ==
    /\ pc = "publish_objects"
    /\ object_set' = Some(NewObjects(y_data[1], x[1]))
    /\ calls' = Append(calls, [fn |-> "add_objects", name |-> "y_name"])
    /\ pc' = "publish_probabilities"
    /\ UNCHANGED <<settingsVars, cacheVars, hostVars, localVars, pending, raised,
                   image_set, measurements, printed>>

\* the probabilities left at the resolution of an upsampled array
ProbabilityImageUpsampled(shape, img) ==
    [name |-> "probabilities_name", shape |-> Upsampled(shape),
     parent_image |-> img.parent_image, dimensions |-> Len(shape)]

\* size_corrected = skimage.transform.resize(flows[2], y_data.shape)
\* Image(size_corrected, parent_image=x.parent_image, convert=False,
\*       dimensions=len(size_corrected.shape))
ProbabilityImage(shape, img) ==
    [name |-> "probabilities_name", shape |-> shape,
     parent_image |-> img.parent_image, dimensions |-> Len(shape)]

\* lines 533-547
RunAddProbabilities ==
    /\ pc = "publish_probabilities"
    /\ IF save_probabilities
       THEN \E outcome \in Outcomes :
            /\ calls' = Append(calls, [fn |-> "resize",
                                       output_shape |-> y_data[1].shape,
                                       order |-> 1, outcome |-> outcome])
            /\ IF outcome = "ok"
               THEN /\ image_set' =
                         Some(ProbabilityImage(y_data[1].shape, x[1]))
                    /\ pc' = "measurements"
                    /\ UNCHANGED raised
               ELSE /\ raised' = Some(outcome)
                    /\ pc' = "raised"
                    /\ UNCHANGED image_set
       ELSE /\ pc' = "measurements"
            /\ UNCHANGED <<calls, image_set, raised>>
    /\ UNCHANGED <<settingsVars, cacheVars, hostVars, localVars, pending,
                   object_set, measurements, printed>>

\* line 549, and the return of run
RunAddMeasurements ==
    /\ pc = "measurements"
    /\ measurements' = TRUE
    /\ pc' = "done"
    /\ UNCHANGED <<settingsVars, cacheVars, hostVars, localVars, pending, raised,
                   calls, object_set, image_set, printed>>

(***************************************************************************)
(* One run of the module on a fresh instance, for every value of the       *)
(* settings.                                                               *)
(***************************************************************************)
\* __init__, lines 92-95
EmptyCache ==
    /\ current_model = None
    /\ current_model_params = None
    /\ recon_model = None
    /\ recon_model_params = None

\* the paths a custom model may be configured with
CustomPaths == {os_path_join(ModelDirectory, f) : f \in FileValues}

\* validate_module has not been called and no invocation has taken place
NoHistory == validation = None /\ earlier_recon_params = None

\* nothing of an invocation has happened yet
Fresh ==
    /\ pc = "idle"
    /\ x = None /\ x_data = None /\ channels = None /\ diam = None
    /\ anisotropy = None /\ input_data = None /\ y_data = None /\ flows = None
    /\ pending = None /\ raised = None
    /\ calls = <<>>
    /\ object_set = None /\ image_set = None /\ measurements = FALSE
    /\ printed = None

Init ==
    /\ mode \in ModeValues
    /\ use_gpu \in BOOLEAN
    /\ supply_nuclei \in BOOLEAN
    /\ denoise \in BOOLEAN
    /\ denoise_type \in DenoiserValues
    /\ expected_diameter \in DiameterValues
    /\ do_3D \in BOOLEAN
    /\ stitch_threshold \in StitchValues
    /\ save_probabilities \in BOOLEAN
    /\ remove_edge_masks \in BOOLEAN
    /\ model_file_name = "cyto_0"
    /\ images \in ImageSets
    /\ files = CustomPaths
    /\ NoHistory
    /\ EmptyCache
    /\ Fresh

Next ==
    \/ RunBegin
    \/ LoadModels
    \/ RunDenoise
    \/ RunSegment
    \/ RunPostprocess
    \/ RunFinally
    \/ RunAddObjects
    \/ RunAddProbabilities
    \/ RunAddMeasurements

Spec == Init /\ [][Next]_vars

(***************************************************************************)
(* A session: one module instance, created with the default settings, on   *)
(* which run is invoked again and again, one image set after the other,    *)
(* while the settings that make up the identity of the models are edited   *)
(* in between.                                                             *)
(***************************************************************************)
\* value=30 of expected_diameter
DefaultDiameter == 30

\* create_settings: the value each setting is created with
DefaultSettings ==
    /\ mode = MODEL_NAMES[1]
    /\ use_gpu = FALSE
    /\ supply_nuclei = FALSE
    /\ denoise = FALSE
    /\ denoise_type = DENOISER_NAMES[1]
    /\ expected_diameter = DefaultDiameter
    /\ do_3D = FALSE
    /\ stitch_threshold = 0
    /\ save_probabilities = FALSE
    /\ remove_edge_masks = TRUE
    /\ model_file_name = "cyto_0"

\* every image set of the session holds a 2D greyscale image and a nuclei
\* image of the same shape
SessionImages ==
    [x_name |-> GreyImage(<<Ly, Lx>>),
     nuclei_image |-> NucleiImage(GreyImage(<<Ly, Lx>>), TRUE)]

SessionInit ==
    /\ DefaultSettings
    /\ images = SessionImages
    /\ files = CustomPaths
    /\ NoHistory
    /\ EmptyCache
    /\ Fresh

\* the settings are edited between invocations
SetMode ==
    /\ pc = "idle"
    /\ \E v \in ModeValues : v /= mode /\ mode' = v
    /\ UNCHANGED <<use_gpu, supply_nuclei, denoise, denoise_type,
                   expected_diameter, do_3D, stitch_threshold, save_probabilities,
                   remove_edge_masks, model_file_name, cacheVars, pc, hostVars,
                   localVars, pending, raised, calls, sinkVars, printed>>

SetUseGpu ==
    /\ pc = "idle"
    /\ use_gpu' = ~use_gpu
    /\ UNCHANGED <<mode, supply_nuclei, denoise, denoise_type,
                   expected_diameter, do_3D, stitch_threshold, save_probabilities,
                   remove_edge_masks, model_file_name, cacheVars, pc, hostVars,
                   localVars, pending, raised, calls, sinkVars, printed>>

SetSupplyNuclei ==
    /\ pc = "idle"
    /\ supply_nuclei' = ~supply_nuclei
    /\ UNCHANGED <<mode, use_gpu, denoise, denoise_type,
                   expected_diameter, do_3D, stitch_threshold, save_probabilities,
                   remove_edge_masks, model_file_name, cacheVars, pc, hostVars,
                   localVars, pending, raised, calls, sinkVars, printed>>

SetDenoise ==
    /\ pc = "idle"
    /\ denoise' = ~denoise
    /\ UNCHANGED <<mode, use_gpu, supply_nuclei, denoise_type,
                   expected_diameter, do_3D, stitch_threshold, save_probabilities,
                   remove_edge_masks, model_file_name, cacheVars, pc, hostVars,
                   localVars, pending, raised, calls, sinkVars, printed>>

SetDenoiseType ==
    /\ pc = "idle"
    /\ \E v \in DenoiserValues : v /= denoise_type /\ denoise_type' = v
    /\ UNCHANGED <<mode, use_gpu, supply_nuclei, denoise,
                   expected_diameter, do_3D, stitch_threshold, save_probabilities,
                   remove_edge_masks, model_file_name, cacheVars, pc, hostVars,
                   localVars, pending, raised, calls, sinkVars, printed>>

SetModelFileName ==
    /\ pc = "idle"
    /\ \E v \in FileValues : v /= model_file_name /\ model_file_name' = v
    /\ UNCHANGED <<mode, use_gpu, supply_nuclei, denoise, denoise_type,
                   expected_diameter, do_3D, stitch_threshold, save_probabilities,
                   remove_edge_masks, cacheVars, pc, hostVars,
                   localVars, pending, raised, calls, sinkVars, printed>>

\* the invocation has returned or raised; the instance, with its settings
\* and its cache, waits for the next one with a new workspace
NewWorkspace ==
    /\ pc \in {"done", "raised"}
    /\ pc' = "idle"
    /\ x' = None /\ x_data' = None /\ channels' = None /\ diam' = None
    /\ anisotropy' = None /\ input_data' = None /\ y_data' = None
    /\ flows' = None
    /\ pending' = None /\ raised' = None
    /\ calls' = <<>>
    /\ object_set' = None /\ image_set' = None /\ measurements' = FALSE
    /\ printed' = None
    /\ UNCHANGED <<settingsVars, cacheVars, images, files, validation>>

NextCycle == NewWorkspace /\ UNCHANGED earlier_recon_params

SessionNext ==
    \/ Next
    \/ SetMode
    \/ SetUseGpu
    \/ SetSupplyNuclei
    \/ SetDenoise
    \/ SetDenoiseType
    \/ SetModelFileName
    \/ NextCycle

Session == SessionInit /\ [][SessionNext]_vars

(***************************************************************************)
(* A session of which the history is kept: when an invocation is over, its *)
(* recon_params are remembered if it had denoise on and the cache holds a  *)
(* denoiser for them. Between invocations the mode, the denoise toggle and *)
(* the denoiser are edited.                                                *)
(***************************************************************************)
RecordingCycle ==
    /\ NewWorkspace
    /\ earlier_recon_params' =
         LET recon_params == ReconParams(denoise_type, use_gpu, mode, supply_nuclei)
         IN  IF denoise /\ recon_model_params = recon_params THEN recon_params
             ELSE earlier_recon_params

HistoryNext ==
    \/ Next
    \/ SetMode
    \/ SetDenoise
    \/ SetDenoiseType
    \/ RecordingCycle

History == SessionInit /\ [][HistoryNext]_vars

(***************************************************************************)
(* validate_module, lines 379-386, and a pipeline in which the host may    *)
(* call it before it calls run. The mode, the file name of the custom      *)
(* model, the denoise toggle and the files that exist are drawn at the     *)
(* start. Nothing in run or load_models depends on validate_module.        *)
(***************************************************************************)
ValidationError == "ValidationError: Failed to open model"

\* os.path.exists(model_path)
os_path_exists(path) == path \in files

ValidateModule ==
    /\ pc = "idle"
    /\ validation' =
         IF /\ mode = "custom"
            /\ ~os_path_exists(os_path_join(ModelDirectory, model_file_name))
         THEN Some(ValidationError)
         ELSE Some("ok")
    /\ UNCHANGED <<settingsVars, cacheVars, pc, images, files,
                   earlier_recon_params, localVars, pending, raised, calls,
                   sinkVars, printed>>

PipelineInit ==
    /\ mode \in ModeValues
    /\ use_gpu = FALSE
    /\ supply_nuclei = FALSE
    /\ denoise \in BOOLEAN
    /\ denoise_type = DENOISER_NAMES[1]
    /\ expected_diameter = DefaultDiameter
    /\ do_3D = FALSE
    /\ stitch_threshold = 0
    /\ save_probabilities = FALSE
    /\ remove_edge_masks = TRUE
    /\ model_file_name \in FileValues
    /\ images = SessionImages
    /\ files \in SUBSET CustomPaths
    /\ NoHistory
    /\ EmptyCache
    /\ Fresh

PipelineNext ==
    \/ ValidateModule
    \/ Next

Pipeline == PipelineInit /\ [][PipelineNext]_vars

(***************************************************************************)
(* Properties                                                              *)
(***************************************************************************)
SegmentCalls == CallsTo(calls, "current_model.eval")

DenoiseCalls == CallsTo(calls, "recon_model.eval")

Failed(log, fn) == \E i \in 1..Len(log) : log[i].fn = fn /\ log[i].outcome /= "ok"

Returned(log, fn) == \E i \in 1..Len(log) : log[i].fn = fn /\ log[i].outcome = "ok"

\* the run is over: it returned or it raised
Exited == pc \in {"done", "raised"}

\* the ModelIdentity the settings request
RequestedIdentity ==
    <<IF mode = "custom" THEN os_path_join(ModelDirectory, model_file_name) ELSE mode,
      use_gpu>>

\* C1: in every invocation of load_models that gets as far as the comparison
\* of the keys, the constructor of the primary model is called if and only if
\* the requested ModelIdentity (model name or custom path, use_gpu) differs
\* from the stored key; a load that returns stores the requested identity,
\* and an invocation without a load leaves the stored key and the handle as
\* they were. So the same identity twice in a row loads once, a change of
\* use_gpu alone loads once more, and the denoiser settings, which are not
\* part of the identity, never load the primary model.
C1_ReloadIffIdentityChanged ==
    [][pc = "load_models" =>
         LET loaded == Called(calls', "models.load")
             reached == ~Failed(calls', "cuda.set_per_process_memory_fraction")
         IN  /\ loaded <=> (reached /\ current_model_params /= RequestedIdentity)
             /\ Returned(calls', "models.load") =>
                  /\ current_model_params' = RequestedIdentity
                  /\ current_model' /= None
                  /\ current_model'[1].model_type = RequestedIdentity[1]
                  /\ current_model'[1].gpu = use_gpu
             /\ ~Returned(calls', "models.load") =>
                  UNCHANGED <<current_model, current_model_params>>]_vars

\* C1 witness: the model was loaded for the GPU (use_gpu switched on after
\* the instance was created with it off) and a later invocation with the
\* same identity has passed load_models without a load
C1_Witness ==
    /\ pc = "denoise"
    /\ use_gpu
    /\ current_model_params = <<"cyto3", TRUE>>
    /\ ~Called(calls, "models.load")

\* C2: no segmentation call has do_3D on and a positive stitch_threshold
C2_NeverStitchAnd3D ==
    \A i \in 1..Len(calls) :
        calls[i].fn = "current_model.eval" =>
            ~(calls[i].do_3D /\ calls[i].stitch_threshold > 0)

\* C3: the segmentation call is given no diameter (None) only if the
\* expected diameter is 0, the model family is sized and do_3D is off
C3_AutoDiameterOnlySized2D ==
    \A i \in 1..Len(calls) :
        (calls[i].fn = "current_model.eval" /\ calls[i].diameter = None) =>
            /\ expected_diameter = 0
            /\ mode \in SIZED_MODELS
            /\ ~do_3D

\* the primary image carries a channel axis
ColourPrimary == Len(images.x_name.shape) = images.x_name.dimensions + 1

NothingPublished == object_set = None /\ image_set = None /\ ~measurements

\* C4: when the primary image is multichannel, run raises the colour-image
\* error with no model loaded, no denoise and no segmentation call made,
\* nothing published and the cache as it was
C4_ColourRejectedFirst ==
    (ColourPrimary /\ pc /= "idle") =>
        /\ pc = "raised"
        /\ raised = Some(ColorImageError)
        /\ ~Called(calls, "cuda.set_per_process_memory_fraction")
        /\ ~Called(calls, "models.load")
        /\ ~Called(calls, "denoise.DenoiseModel")
        /\ ~Called(calls, "recon_model.eval")
        /\ ~Called(calls, "current_model.eval")
        /\ NothingPublished
        /\ EmptyCache

C4_Witness == ColourPrimary /\ pc = "raised" /\ denoise /\ use_gpu

\* C5: a run that raised has published nothing, and a run that returned
\* has published the objects and, with save_probabilities on, the
\* probability image
C5_NoPartialResults ==
    /\ pc = "raised" => (object_set = None /\ image_set = None)
    /\ pc = "done" => (object_set /= None /\ (save_probabilities => image_set /= None))

\* C6: with use_gpu on, a run that is over and in which
\* set_per_process_memory_fraction was called has called cuda.empty_cache
C6_CleanupOnEveryExit ==
    (use_gpu /\ Exited /\ Returned(calls, "cuda.set_per_process_memory_fraction")) =>
        Called(calls, "cuda.empty_cache")

\* the exception the try block ended with, None when it ran to its end
TryBlockError ==
    LET bad == SelectSeq(calls,
                 LAMBDA c : /\ c.fn \in {"recon_model.eval", "current_model.eval",
                                         "resize", "remove_edge_masks"}
                            /\ c.outcome /= "ok"
                            /\ (c.fn = "resize" => c.order = 0))
    IN  IF Len(bad) = 0 THEN None ELSE Some(bad[1].outcome)

C8_InferenceErrorPropagates ==
    \A fn \in {"recon_model.eval", "current_model.eval"} :
        Failed(calls, fn) =>
            /\ Len(CallsTo(calls, fn)) = 1
            /\ pc \in {"finally", "raised"}
            /\ pc = "raised" =>
                 /\ raised = Some(CallsTo(calls, fn)[1].outcome)
                 /\ use_gpu => Called(calls, "cuda.empty_cache")
            /\ NothingPublished

C8_Witness ==
    /\ Failed(calls, "recon_model.eval")
    /\ Failed(calls, "cuda.empty_cache")
    /\ pc = "raised"
    /\ raised /= printed

\* the diameter the user's setting resolves to
UserResolvedDiameter ==
    IF expected_diameter > 0 THEN <<expected_diameter>> ELSE <<>>

\* C9: the denoise call is given the user's resolved diameter; after a
\* denoise pass with upsample_cyto3 the segmentation call is given 30, after
\* one with upsample_nuclei 17, and in every other run the user's resolved
\* diameter
C9_UpsampleDiameterOverride ==
    /\ \A i \in 1..Len(DenoiseCalls) :
           DenoiseCalls[i].diameter = UserResolvedDiameter
    /\ \A i \in 1..Len(SegmentCalls) :
           SegmentCalls[i].diameter =
               IF denoise /\ denoise_type = "upsample_cyto3" THEN <<30>>
               ELSE IF denoise /\ denoise_type = "upsample_nuclei" THEN <<17>>
               ELSE UserResolvedDiameter

C9_Witness ==
    /\ expected_diameter = 0
    /\ Len(DenoiseCalls) = 1 /\ DenoiseCalls[1].diameter = None
    /\ Len(SegmentCalls) = 1 /\ SegmentCalls[1].diameter = <<17>>

\* the inference-layer calls of the run, in order
InferenceCalls ==
    SelectSeq(calls, LAMBDA c : c.fn \in {"recon_model.eval", "current_model.eval"})

\* C10: with supply_nuclei on and a mode other than nuclei, the array of
\* the first inference-layer call has one more axis than the primary
\* image, of length 3, which is axis 1 with do_3D on and the last axis
\* otherwise, holding the zero plane, the primary image and the nuclei image
\* in this order, and the call is given channels (2, 3); a segmentation call
\* after an upsampling denoiser is given channels (0, 1)
C10_ComposedTensor ==
    (supply_nuclei /\ mode /= "nuclei" /\ Len(InferenceCalls) > 0) =>
        LET first == InferenceCalls[1]
            ndim == Len(images.x_name.shape)
        IN  /\ first.fn = (IF denoise THEN "recon_model.eval" ELSE "current_model.eval")
            /\ Len(first.x.shape) = ndim + 1
            /\ first.x.axis = (IF do_3D THEN 2 ELSE ndim + 1)
            /\ first.x.shape[first.x.axis] = 3
            /\ RemoveAt(first.x.shape, first.x.axis) = images.x_name.shape
            /\ first.x.planes = <<"zeros", "primary", "nuclei">>
            /\ first.channels = <<2, 3>>
            /\ (denoise /\ denoise_type \in {"upsample_cyto3", "upsample_nuclei"}) =>
                 \A i \in 1..Len(SegmentCalls) : SegmentCalls[i].channels = <<0, 1>>

C10_Witness ==
    /\ supply_nuclei /\ mode = "cyto3" /\ do_3D
    /\ denoise /\ denoise_type = "upsample_cyto3"
    /\ Len(images.x_name.shape) = 3
    /\ Len(SegmentCalls) = 1
    /\ SegmentCalls[1].channels = <<0, 1>>
    /\ DenoiseCalls[1].x.shape = <<Lz, 3, Ly, Lx>>

\* the settings ask for the primary image alone
PrimaryAlone == ~supply_nuclei \/ mode = "nuclei"

\* C11: with supply_nuclei off, or with mode nuclei whatever supply_nuclei
\* is, the run reads the primary image only (get_image is never called for
\* the nuclei image), the array of the first inference-layer call is the
\* pixel data of the primary image, of its shape and without a channel axis,
\* and every denoise call and every segmentation call is given channels (0, 0)
C11_PrimaryAloneUnchanged ==
    (PrimaryAlone /\ pc /= "idle") =>
        /\ \A i \in 1..Len(calls) :
               calls[i].fn = "get_image" => calls[i].name = "x_name"
        /\ Len(InferenceCalls) > 0 =>
               /\ InferenceCalls[1].x.shape = images.x_name.shape
               /\ InferenceCalls[1].x.axis = 0
               /\ InferenceCalls[1].x.planes = <<"primary">>
        /\ \A i \in 1..Len(InferenceCalls) : InferenceCalls[i].channels = <<0, 0>>

\* C11 witness: mode nuclei with supply_nuclei on, a 3D image, and both a
\* denoise call and a segmentation call made
C11_Witness ==
    /\ mode = "nuclei" /\ supply_nuclei /\ denoise
    /\ Len(images.x_name.shape) = 3
    /\ Len(DenoiseCalls) = 1 /\ DenoiseCalls[1].channels = <<0, 0>>
    /\ Len(SegmentCalls) = 1 /\ SegmentCalls[1].channels = <<0, 0>>
    /\ DenoiseCalls[1].x = Plane("primary", <<Lz, Ly, Lx>>)

\* the DenoiserIdentity the settings request
RequestedDenoiserIdentity == <<denoise_type, use_gpu, supply_nuclei /\ mode /= "nuclei">>

\* C12: an invocation with denoise on calls the constructor of the denoiser
\* only if no earlier invocation had denoise on, or if its DenoiserIdentity
\* (denoise_type, use_gpu, nuclei channel present) differs from that of the
\* most recent earlier invocation with denoise on; invocations with denoise
\* off in between and changes of mode that leave the DenoiserIdentity equal
\* do not make it load again
C12_DenoiserReloadOnlyOnChange ==
    [][(pc = "load_models" /\ denoise /\ Called(calls', "denoise.DenoiseModel")) =>
           \/ earlier_recon_params = None
           \/ earlier_recon_params /= RequestedDenoiserIdentity]_vars

\* the settings ask for a denoise pass with an upsampling model
UpsamplingRun == denoise /\ denoise_type \in {"upsample_cyto3", "upsample_nuclei"}

\* the call at position i of the log is the order-0 resize of the label map
\* to the shape of the primary image, and it returned
IsLabelResize(i) ==
    /\ calls[i].fn = "resize"
    /\ calls[i].order = 0
    /\ calls[i].output_shape = images.x_name.shape
    /\ calls[i].outcome = "ok"

\* C13: in a run with an upsampling denoiser, remove_edge_masks is called
\* only after the label map was resized with order 0 to the shape of the
\* primary image, and the label map published to the object set has the
\* shape of the primary image (not that of the stacked or of the upsampled
\* array) and is the result of that order-0 resize
C13_UpsampleRoundTrip ==
    UpsamplingRun =>
        /\ \A i \in 1..Len(calls) :
               calls[i].fn = "remove_edge_masks" =>
                   \E j \in 1..(i - 1) : IsLabelResize(j)
        /\ object_set /= None =>
               /\ object_set[1].segmented.shape = images.x_name.shape
               /\ object_set[1].segmented.order = <<0>>
               /\ \E j \in 1..Len(calls) : IsLabelResize(j)

\* C13 witness: a 3D image stacked with the nuclei image and upsampled by
\* the denoiser, the label map of the upsampled shape returned by the
\* segmentation call, edge masks removed, objects published
C13_Witness ==
    /\ UpsamplingRun /\ remove_edge_masks
    /\ supply_nuclei /\ mode = "cyto3" /\ do_3D
    /\ images.x_name.shape = <<Lz, Ly, Lx>>
    /\ Len(SegmentCalls) = 1
    /\ Spatial(SegmentCalls[1].x) = <<Lz, Ly * UpsampleFactor, Lx * UpsampleFactor>>
    /\ object_set /= None
    /\ object_set[1].segmented.edge_masks_removed
    /\ object_set[1].segmented.shape = <<Lz, Ly, Lx>>

\* the class the claim asks for: sized for the four sized families
ClassFor(model_name) ==
    IF model_name \in {"cyto3", "cyto2", "cyto", "nuclei"} THEN "Cellpose"
    ELSE "CellposeModel"

\* C14: every load of a primary model constructs models.Cellpose if the
\* model name is one of cyto3, cyto2, cyto, nuclei and models.CellposeModel
\* for every other built-in model and for every custom path; and whatever
\* settings were edited between the invocations, the class of the cached
\* handle is the one that goes with the model name of the stored key
C14_ClassMatchesIdentity ==
    /\ \A i \in 1..Len(calls) :
           calls[i].fn = "models.load" =>
               calls[i].class = ClassFor(calls[i].model_type)
    /\ current_model /= None =>
           /\ current_model_params /= None
           /\ current_model[1].model_type = current_model_params[1]
           /\ current_model[1].class = ClassFor(current_model_params[1])

\* C14 witness: after a sized model, a custom path was loaded into the
\* fixed-size class, and the invocation went on to the segmentation call
C14_Witness ==
    /\ current_model_params = <<"/models/cyto_1", FALSE>>
    /\ current_model[1].class = "CellposeModel"
    /\ Returned(calls, "models.load")
    /\ Len(SegmentCalls) = 1
    /\ SegmentCalls[1].class = "CellposeModel"

\* C15: the segmentation call of a run on a 2D greyscale image without a
\* nuclei image, with a sized model, denoise off and expected_diameter 0 is
\* given the diameter None; the segmentation call of a run with
\* expected_diameter d > 0 and no upsampling denoiser is given exactly d
C15_DiameterResolution ==
    \A i \in 1..Len(SegmentCalls) :
        /\ ( /\ expected_diameter = 0
             /\ ~denoise
             /\ mode \in {"cyto3", "cyto2", "cyto", "nuclei"}
             /\ ~supply_nuclei
             /\ images.x_name.shape = <<Ly, Lx>> )
           => SegmentCalls[i].diameter = <<>>
        /\ ( /\ expected_diameter > 0
             /\ ~(denoise /\ denoise_type \in {"upsample_cyto3", "upsample_nuclei"}) )
           => SegmentCalls[i].diameter = <<expected_diameter>>

\* C15 witness: a segmentation call with diameter None on a 2D image with
\* the sized model cyto3
C15_Witness ==
    /\ expected_diameter = 0 /\ ~denoise /\ mode = "cyto3" /\ ~supply_nuclei
    /\ images.x_name.shape = <<Ly, Lx>>
    /\ Len(SegmentCalls) = 1
    /\ SegmentCalls[1].class = "Cellpose"
    /\ SegmentCalls[1].diameter = <<>>
    /\ SegmentCalls[1].outcome = "ok"

\* C16: the anisotropy given to the segmentation call is, with do_3D on,
\* the quotient spacing[0] / spacing[1] of the primary image (numerator and
\* denominator compared by cross-multiplication), and 0 with do_3D off,
\* whatever the spacing of the image and the stitch threshold are
C16_Anisotropy ==
    \A i \in 1..Len(SegmentCalls) :
        LET a == SegmentCalls[i].anisotropy
            spacing == images.x_name.spacing
        IN  /\ a[2] /= 0
            /\ do_3D => a[1] * spacing[2] = spacing[1] * a[2]
            /\ ~do_3D => a[1] = 0

\* C16 witness: a 3D image with spacing (SpacingZ, SpacingXY, SpacingXY),
\* do_3D on and a positive stitch threshold: the segmentation call is given
\* SpacingZ / SpacingXY, which is not 1
C16_Witness ==
    /\ do_3D /\ stitch_threshold > 0
    /\ images.x_name.spacing = <<SpacingZ, SpacingXY, SpacingXY>>
    /\ Len(SegmentCalls) = 1
    /\ SegmentCalls[1].anisotropy = <<SpacingZ, SpacingXY>>
    /\ SpacingZ /= SpacingXY

\* the objects of a label map as a set
ObjectsOf(y) == {y.objects[i] : i \in 1..Len(y.objects)}

\* C17: remove_edge_masks is called exactly when the remove_edge_masks
\* setting is on. When it is on and the post-processing ended without an
\* exception, the label map has no object that touches a boundary face and
\* every interior object is still there under the label the model gave it;
\* when it is off, the objects are those the model returned. The label map
\* published to the object set is the post-processed one.
C17_EdgeMasksRemovedIffToggle ==
    [][/\ (pc = "postprocess" /\ pending' = None) =>
            LET before == ObjectsOf(y_data[1])
                after == ObjectsOf(y_data'[1])
            IN  IF remove_edge_masks
                THEN /\ Called(calls', "remove_edge_masks")
                     /\ \A o \in after : ~o.edge
                     /\ \A o \in before :
                            ~o.edge => \E p \in after : p.seg = o.seg /\ p.id = o.seg
                ELSE /\ ~Called(calls', "remove_edge_masks")
                     /\ after = before
       /\ pc = "publish_objects" => object_set'[1].segmented = y_data[1]]_vars

\* C18: when the run is over, the image set holds a probability image if
\* and only if save_probabilities is on and the run returned; a probability
\* image in the image set has the shape of the label map published to the
\* object set (the shape after the resize of an upsampling run), the name
\* of the probabilities_name setting and the parent of the primary image
C18_ProbabilityImage ==
    /\ Exited => (image_set /= None <=> (save_probabilities /\ pc = "done"))
    /\ image_set /= None =>
           /\ save_probabilities
           /\ object_set /= None
           /\ image_set[1].shape = object_set[1].segmented.shape
           /\ image_set[1].name = "probabilities_name"
           /\ image_set[1].parent_image = images.x_name.parent_image

\* C18 witness: a run with an upsampling denoiser returned; the cell
\* probabilities came at the upsampled shape and the image published has
\* the shape of the primary image
C18_Witness ==
    /\ pc = "done" /\ save_probabilities /\ UpsamplingRun
    /\ image_set /= None
    /\ flows[1].shape /= images.x_name.shape
    /\ image_set[1].shape = images.x_name.shape
    /\ object_set[1].segmented.shape = images.x_name.shape

\* the invocation is past the denoise step of the try block
PastDenoise ==
    pc \in {"segment", "postprocess", "finally", "publish_objects",
            "publish_probabilities", "measurements", "done"}

\* C19: an invocation makes at most one denoise call and at most one
\* segmentation call. A denoise call is made only with denoise on, and with
\* denoise on every invocation that gets past the denoise step has made it.
\* With denoise on, the segmentation call comes after a denoise call that
\* returned; the denoise call was given the composed array and the
\* segmentation call is given what the denoiser returned: the primary plane
\* (and the nuclei plane when it was stacked) along a trailing channel axis.
\* With denoise off the segmentation call is the only inference call and is
\* given the composed array.
C19_OneDenoiseThenSegment ==
    /\ Len(DenoiseCalls) <= 1
    /\ Len(SegmentCalls) <= 1
    /\ Len(DenoiseCalls) > 0 => denoise
    /\ (denoise /\ PastDenoise) => Len(DenoiseCalls) = 1
    /\ Len(SegmentCalls) > 0 =>
           LET seg == SegmentCalls[1]
           IN  IF denoise
               THEN /\ Len(InferenceCalls) = 2
                    /\ InferenceCalls[1].fn = "recon_model.eval"
                    /\ InferenceCalls[1].outcome = "ok"
                    /\ InferenceCalls[1].x = x_data[1]
                    /\ InferenceCalls[2] = seg
                    /\ seg.x = input_data[1]
                    /\ seg.x /= x_data[1]
                    /\ seg.x.axis = Len(seg.x.shape)
                    /\ seg.x.planes =
                         IF supply_nuclei /\ mode /= "nuclei"
                         THEN <<"primary", "nuclei">> ELSE <<"primary">>
               ELSE /\ Len(InferenceCalls) = 1
                    /\ seg.x = x_data[1]

\* C19 witness: an invocation that found its denoiser in the cache made the
\* denoise call on the stacked array and then the segmentation call, and
\* returned
C19_Witness ==
    /\ pc = "done" /\ denoise
    /\ supply_nuclei /\ mode = "cyto3"
    /\ ~Called(calls, "denoise.DenoiseModel")
    /\ Len(InferenceCalls) = 2
    /\ InferenceCalls[1].x.planes = <<"zeros", "primary", "nuclei">>
    /\ InferenceCalls[2].x.planes = <<"primary", "nuclei">>

\* mode is custom and the configured model file does not exist
UnresolvableCustomPath ==
    mode = "custom" /\ os_path_join(ModelDirectory, model_file_name) \notin files

\* C20: with mode custom and a model path that does not exist, no primary
\* model or denoiser is constructed and no denoise call or segmentation
\* call is made unless validate_module has raised the validation error
\* before, and no invocation gets as far as a denoise call or a
\* segmentation call
C20_CustomPathValidatedFirst ==
    UnresolvableCustomPath =>
        /\ ( \/ Called(calls, "models.load")
             \/ Called(calls, "denoise.DenoiseModel")
             \/ Called(calls, "recon_model.eval")
             \/ Called(calls, "current_model.eval") )
           => validation = <<"ValidationError: Failed to open model">>
        /\ ~Called(calls, "recon_model.eval")
        /\ ~Called(calls, "current_model.eval")

\* the settings ask for a denoise pass on the array stacked with the
\* nuclei image
DenoiseWithNuclei == denoise /\ supply_nuclei /\ mode /= "nuclei"

\* C21: in a run with denoise on, a nuclei image stacked and a denoiser
\* that does not upsample (denoise_* or deblur_*), the segmentation call is
\* given the channels (2, 3) the denoise call was given
C21_CollapseOnlyForUpsample ==
    (DenoiseWithNuclei /\ denoise_type \notin {"upsample_cyto3", "upsample_nuclei"}) =>
        \A i \in 1..Len(SegmentCalls) :
            /\ SegmentCalls[i].channels = <<2, 3>>
            /\ SegmentCalls[i].channels = DenoiseCalls[1].channels

\* C21, as the code has it: in a run with denoise on and a nuclei image
\* stacked, the denoise call is given channels (2, 3) and the segmentation
\* call channels (0, 1), whatever the denoiser is, upsampling or not; the
\* array of the segmentation call then holds two planes, the primary and
\* the nuclei image. With denoise off and a nuclei image stacked the
\* segmentation call is given (2, 3).
C21_CollapseAfterAnyDenoiser ==
    (supply_nuclei /\ mode /= "nuclei") =>
        /\ \A i \in 1..Len(DenoiseCalls) : DenoiseCalls[i].channels = <<2, 3>>
        /\ \A i \in 1..Len(SegmentCalls) :
               IF denoise
               THEN /\ SegmentCalls[i].channels = <<0, 1>>
                    /\ Len(SegmentCalls[i].x.planes) = 2
               ELSE SegmentCalls[i].channels = <<2, 3>>

\* C21 witness: after a pass of the denoiser deblur_nuclei, which does not
\* upsample, on the stacked array the segmentation call is given (0, 1)
C21_Witness ==
    /\ DenoiseWithNuclei /\ denoise_type = "deblur_nuclei"
    /\ Len(DenoiseCalls) = 1 /\ DenoiseCalls[1].channels = <<2, 3>>
    /\ Len(SegmentCalls) = 1 /\ SegmentCalls[1].channels = <<0, 1>>
    /\ SegmentCalls[1].x.planes = <<"primary", "nuclei">>
    /\ Spatial(SegmentCalls[1].x) = images.x_name.shape

\* each key is None exactly when its handle is, and a handle that is held
\* was constructed with the values of its key
CacheConsistent ==
    /\ current_model_params = None <=> current_model = None
    /\ current_model /= None =>
           <<current_model[1].model_type, current_model[1].gpu>> = current_model_params
    /\ recon_model_params = None <=> recon_model = None
    /\ recon_model /= None =>
           <<recon_model[1].model_type, recon_model[1].gpu, recon_model[1].chan2>>
               = recon_model_params

\* C22: whatever invocations came before, with constructors that returned
\* or raised, the key of the primary model is None exactly when no handle
\* is held and is otherwise what the handle was constructed with, and so
\* for the denoiser; and a constructor that raises leaves key and handle as
\* they were, the key different from the identity requested, so that the
\* next invocation with that identity calls the constructor again
C22_CacheConsistency ==
    /\ []CacheConsistent
    /\ [][pc = "load_models" =>
            /\ Failed(calls', "models.load") =>
                   /\ UNCHANGED cacheVars
                   /\ current_model_params' /= RequestedIdentity
            /\ Failed(calls', "denoise.DenoiseModel") =>
                   /\ UNCHANGED <<recon_model, recon_model_params>>
                   /\ recon_model_params' /= RequestedDenoiserIdentity]_vars

\* C22 witness: the constructor of the denoiser raised in an invocation
\* that had loaded a new primary model; the cache still holds the denoiser
\* of an earlier invocation under its own key
C22_Witness ==
    /\ pc = "raised"
    /\ Failed(calls, "denoise.DenoiseModel")
    /\ Returned(calls, "models.load")
    /\ current_model_params = RequestedIdentity
    /\ recon_model /= None
    /\ recon_model_params /= RequestedDenoiserIdentity
    /\ recon_model[1].chan2

\* at the start of the try block a denoiser is held exactly when denoise
\* is on, and it is the one the settings of this run ask for
DenoiserHeldIffToggle ==
    pc = "denoise" =>
        /\ recon_model /= None <=> denoise
        /\ recon_model /= None =>
               /\ recon_model_params = RequestedDenoiserIdentity
               /\ recon_model[1].model_type = denoise_type
               /\ recon_model[1].gpu = use_gpu
               /\ recon_model[1].chan2 = (supply_nuclei /\ mode /= "nuclei")

\* the reset of the denoiser cache leaves the primary model alone: handle
\* and key are those held before unless the constructor of the primary
\* model returned in this invocation
PrimaryUntouched ==
    ~Returned(calls', "models.load") =>
        UNCHANGED <<current_model, current_model_params>>

\* C23: after every invocation of load_models with denoise off the
\* denoiser handle and key are None and the primary model is untouched by
\* the reset; at the start of the try block a denoiser is held if and only
\* if denoise is on, and never one of an earlier run
C23_DenoiserResetOnEveryInvocation ==
    /\ []DenoiserHeldIffToggle
    /\ [][(pc = "load_models" /\ ~denoise) =>
            /\ recon_model' = None
            /\ recon_model_params' = None
            /\ PrimaryUntouched]_vars

\* C23, as the code has it: after every invocation of load_models that
\* returns with denoise off the denoiser handle and key are None and the
\* primary model is untouched by the reset, while an invocation of
\* load_models that raises with denoise off (in
\* set_per_process_memory_fraction or in the constructor of the primary
\* model) leaves the denoiser handle and key as they were; at the start of
\* the try block a denoiser is held if and only if denoise is on, and never
\* one of an earlier run
C23_DenoiserResetWhenReturned ==
    /\ []DenoiserHeldIffToggle
    /\ [][(pc = "load_models" /\ ~denoise) =>
            /\ PrimaryUntouched
            /\ pc' = "denoise" =>
                   /\ recon_model' = None
                   /\ recon_model_params' = None
                   /\ current_model' /= None
            /\ pc' = "raised" =>
                   UNCHANGED <<recon_model, recon_model_params>>]_vars

\* C23 witness: an invocation with denoise off has passed load_models
\* without a load of the primary model; the denoiser cache is empty and the
\* primary model of an earlier invocation, loaded for the GPU, is held
C23_Witness ==
    /\ pc = "denoise" /\ ~denoise
    /\ recon_model = None /\ recon_model_params = None
    /\ ~Called(calls, "models.load")
    /\ use_gpu
    /\ current_model /= None
    /\ current_model_params = RequestedIdentity
====
